---------------------------- MODULE Spec2Model ----------------------------
(***************************************************************************)
(* Observation store of the network problem detector agent                 *)
(* (src/pkg/agent/db/writer2.go): record codec, hourly file manager,       *)
(* write pipeline, retention sweep and query/replay engine.                *)
(*                                                                         *)
(* Time is counted in minutes.  A byte stream (a file's content, a payload)*)
(* is a sequence of runs, a run being n copies of a byte b, written as the *)
(* number 256 * n + b; adjacent runs hold different bytes, so that equal   *)
(* streams are equal values and a payload of 65536 bytes is one run.       *)
(***************************************************************************)
EXTENDS Integers, Sequences, FiniteSets, TLC

VARIABLES
    \* ---- record codec: one writer appending to a stream, one reader
    stream,     \* bytes of the file being appended to
    wr,         \* the writeRecord call in progress (three writes) or returned
    log,        \* history: the records writeRecord was called with, in order
    rd,         \* result of the reader's latest replay of the stream
    \* ---- observation store
    clock,      \* time.Now(), minutes
    fs,         \* the store directory: hour -> entry (none, file, dir)
    cur,        \* obsWriter.currentFile
    sweeps,     \* cleanOldFiles goroutines spawned and not yet run
    retentionHours, \* obsWriter.retentionHours
    stored,     \* history: hour -> observations appended to that file
    ev,         \* history: what the latest Run step did
    qry,        \* latest ListObservations call and what it returned
    budget,     \* history: submissions and failures so far
    \* ---- write pipeline: Add, Run and Stop around the channels
    obsChan,    \* obsWriter.obsChan: the observations queued, oldest first
    pipe,       \* where Add's callers, Run and Stop are, and their history
    \* ---- retention sweeps over one directory
    entries,    \* the directory: name -> entry
    sweepers    \* the cleanOldFiles goroutines

codecVars == <<stream, wr, log, rd>>
storeVars == <<clock, fs, cur, sweeps, retentionHours, stored, ev, qry, budget>>
pipeVars == <<obsChan, pipe>>
sweepVars == <<entries, sweepers>>
asideVars == <<obsChan, pipe, entries, sweepers>>
vars == <<stream, wr, log, rd, clock, fs, cur, sweeps, retentionHours,
          stored, ev, qry, budget, obsChan, pipe, entries, sweepers>>

-----------------------------------------------------------------------------
(* Program constants *)

markerStringID == 1
markerObservation == 2
markerOpen == 127

\* the element of a set of one element; {F(x) : x \in {e}} holds F of the
\* value of e
Only(S) == CHOOSE x \in S : TRUE

Min(a, b) == IF a <= b THEN a ELSE b
Max(a, b) == IF a >= b THEN a ELSE b

-----------------------------------------------------------------------------
(* Byte streams *)

ByteRun(b, n) == 256 * n + b
RunByte(x) == x % 256
RunLen(x) == x \div 256

Bytes(b, n) == IF n = 0 THEN <<>> ELSE <<ByteRun(b, n)>>

RECURSIVE SLen(_)
SLen(s) == IF s = <<>> THEN 0 ELSE RunLen(Head(s)) + SLen(Tail(s))

\* s followed by t
Cat(s, t) ==
    IF s = <<>> THEN t
    ELSE IF t = <<>> THEN s
    ELSE IF RunByte(s[Len(s)]) = RunByte(t[1])
         THEN SubSeq(s, 1, Len(s) - 1)
              \o <<ByteRun(RunByte(t[1]), RunLen(s[Len(s)]) + RunLen(t[1]))>>
              \o Tail(t)
         ELSE s \o t

\* the first k bytes of s (all of s when it is shorter)
RECURSIVE Take(_, _)
Take(s, k) ==
    IF k = 0 \/ s = <<>> THEN <<>>
    ELSE IF RunLen(Head(s)) <= k
         THEN <<Head(s)>> \o Take(Tail(s), k - RunLen(Head(s)))
         ELSE <<ByteRun(RunByte(Head(s)), k)>>

\* s without its first k bytes
RECURSIVE Drop(_, _)
Drop(s, k) ==
    IF k = 0 \/ s = <<>> THEN s
    ELSE IF RunLen(Head(s)) <= k
         THEN Drop(Tail(s), k - RunLen(Head(s)))
         ELSE <<ByteRun(RunByte(Head(s)), RunLen(Head(s)) - k)>> \o Tail(s)

\* the byte at offset off (0-based), off < SLen(s)
ByteAt(s, off) == RunByte(Drop(s, off)[1])

-----------------------------------------------------------------------------
(* Record codec *)

\* Go's uint16(len(value)) conversion
uint16(n) == n % 65536

\* binary.Write(w, binary.LittleEndian, uint16)
LittleEndian16(x) == Cat(Bytes(x % 256, 1), Bytes(x \div 256, 1))

\* writeRecord: the Write of the payload, w2 holding marker and length
writeValue(w2, value, fail) ==
    IF fail = 3 THEN [out |-> w2, err |-> "write failed"]
    ELSE IF fail = 4 THEN [out |-> Cat(w2, Take(value, 1)), err |-> "write failed"]
    ELSE [out |-> Cat(w2, value), err |-> "nil"]

\* writeRecord: the Write of the length, w1 holding the marker
writeLength(w1, value, fail) ==
    IF fail = 2 THEN [out |-> w1, err |-> "write failed"]
    ELSE Only({writeValue(w2, value, fail) :
                  w2 \in {Cat(w1, LittleEndian16(uint16(SLen(value))))}})

\* writeRecord(w, marker, value): w is the file's content before the call.
\* fail names the Write that returns an error: 0 none, 1 the marker, 2 the
\* length, 3 the payload with nothing of it written, 4 the payload after one
\* byte of it was written.  A Write that fails ends the call; what the
\* earlier Writes put into the file stays there.
writeRecord(w, marker, value, fail) ==
    IF fail = 1 THEN [out |-> w, err |-> "write failed"]
    ELSE Only({writeLength(w1, value, fail) : w1 \in {Cat(w, Bytes(marker, 1))}})

\* a []byte: nil, or a slice holding bytes (possibly none)
NilValue == [isNil |-> TRUE, bytes |-> <<>>]

\* variant of Value: a slice of no bytes is nil
ValueNilWhenEmpty(bytes) == [isNil |-> bytes = <<>>, bytes |-> bytes]

Value(bytes) == [isNil |-> FALSE, bytes |-> bytes]

\* readRecord: r.Read(value) on the unread bytes r2
readValue(marker, length, r2) ==
    IF length > 0 /\ r2 = <<>>
    THEN \* r.Read(value) returns 0, io.EOF
         [marker |-> 0, value |-> NilValue, err |-> "EOF", rest |-> <<>>]
    ELSE IF Min(length, SLen(r2)) # length
    THEN [marker |-> 0, value |-> NilValue, err |-> "incomplete block", rest |-> <<>>]
    ELSE [marker |-> marker, value |-> Value(Take(r2, length)), err |-> "nil",
          rest |-> Drop(r2, length)]

\* readRecord: binary.Read of the length on the unread bytes r1
readLength(marker, r1) ==
    IF SLen(r1) < 2
    THEN \* io.EOF or io.ErrUnexpectedEOF
         [marker |-> 0, value |-> NilValue,
          err |-> IF r1 = <<>> THEN "EOF" ELSE "unexpected EOF", rest |-> <<>>]
    ELSE Only({readValue(marker, ByteAt(r1, 0) + 256 * ByteAt(r1, 1), r2) :
                  r2 \in {Drop(r1, 2)}})

\* readRecord(r): r is what the reader has not read yet; rest is what is
\* left unread after the call.
readRecord(r) ==
    IF r = <<>>
    THEN \* r.Read(marker) returns io.EOF
         [marker |-> 0, value |-> NilValue, err |-> "nil", rest |-> r]
    ELSE Only({readLength(ByteAt(r, 0), r1) : r1 \in {Drop(r, 1)}})

-----------------------------------------------------------------------------
(* String dictionary and observation codec.  Their source files are not    *)
(* part of src/; they are modelled from the specification's sections 4.2   *)
(* and 4.3.  A string takes one byte on disk, a timestamp two.             *)

Strings == {"A", "B", "h1", "h2"}

StrCode(s) == CASE s = "A" -> 65 [] s = "B" -> 66 [] s = "h1" -> 11 [] s = "h2" -> 12

StrCodes == {StrCode(s) : s \in Strings}

StrOf(c) == CHOOSE s \in Strings : StrCode(s) = c

\* NewStringIDMap(): a dictionary is a function from its keys to strings
NewStringIDMap == <<>>

\* StringIDMap.Append(obj): a later entry for a key replaces the earlier one
MapAppend(m, key, value) ==
    [k \in DOMAIN m \cup {key} |-> IF k = key THEN value ELSE m[k]]

\* NewStringIDMapFromData(objects): replay the entries in order
RECURSIVE NewStringIDMapFromData(_)
NewStringIDMapFromData(objects) ==
    IF objects = <<>> THEN NewStringIDMap
    ELSE MapAppend(NewStringIDMapFromData(SubSeq(objects, 1, Len(objects) - 1)),
                   objects[Len(objects)].key, objects[Len(objects)].value)

KeysOf(m, value) == {k \in DOMAIN m : m[k] = value}

SetMin(S) == CHOOSE x \in S : \A y \in S : x <= y
SetMax(S) == CHOOSE x \in S : \A y \in S : x >= y

\* the next unused key
NextKey(m) == IF DOMAIN m = {} THEN 1 ELSE SetMax(DOMAIN m) + 1

\* lookupOrAssign(value): the existing key, or the next unused key, entered
\* into the dictionary and marked as new (the caller persists it)
LookupOrAssign(m, value) ==
    IF KeysOf(m, value) # {}
    THEN [key |-> SetMin(KeysOf(m, value)), isNew |-> FALSE, idMap |-> m]
    ELSE [key |-> NextKey(m), isNew |-> TRUE,
          idMap |-> MapAppend(m, NextKey(m), value)]

\* proto.Marshal(&nwpd.IntString{Key, Value})
IntStringBytes(key, value) == Cat(Bytes(key, 1), Bytes(StrCode(value), 1))

\* proto.Unmarshal(value, &nwpd.IntString{})
IntStringFromBytes(bytes) ==
    IF SLen(bytes) = 2 /\ ByteAt(bytes, 1) \in StrCodes
    THEN [err |-> "nil", key |-> ByteAt(bytes, 0), value |-> StrOf(ByteAt(bytes, 1))]
    ELSE [err |-> "unmarshal", key |-> 0, value |-> ""]

\* IntObsToBytes(intobs)
IntObsToBytes(io) ==
    Cat(Cat(Cat(Cat(LittleEndian16(io.Timestamp), Bytes(IF io.Ok THEN 1 ELSE 0, 1)),
                Bytes(io.JobID, 1)), Bytes(io.SrcHost, 1)), Bytes(io.DestHost, 1))

\* IntObsFromBytes(value)
IntObsFromBytes(bytes) ==
    IF SLen(bytes) = 6 /\ ByteAt(bytes, 2) \in {0, 1}
    THEN [err |-> "nil",
          intobs |-> [Timestamp |-> ByteAt(bytes, 0) + 256 * ByteAt(bytes, 1),
                      Ok |-> ByteAt(bytes, 2) = 1,
                      JobID |-> ByteAt(bytes, 3),
                      SrcHost |-> ByteAt(bytes, 4),
                      DestHost |-> ByteAt(bytes, 5)]]
    ELSE [err |-> "unmarshal",
          intobs |-> [Timestamp |-> 0, Ok |-> FALSE, JobID |-> 0, SrcHost |-> 0,
                      DestHost |-> 0]]

\* IntObsToObservation(intobs, idMap): resolve every key
IntObsToObservation(io, m) ==
    IF {io.JobID, io.SrcHost, io.DestHost} \subseteq DOMAIN m
    THEN [err |-> "nil",
          obs |-> [Timestamp |-> io.Timestamp, Ok |-> io.Ok, JobID |-> m[io.JobID],
                   SrcHost |-> m[io.SrcHost], DestHost |-> m[io.DestHost]]]
    ELSE [err |-> "unknown key",
          obs |-> [Timestamp |-> 0, Ok |-> FALSE, JobID |-> "", SrcHost |-> "",
                   DestHost |-> ""]]

\* the fail argument of the n-th writeRecord call of a handler whose
\* io.failAt-th call is the one that fails
FailOf(io, n) == IF io.failAt = n THEN io.how ELSE 0

\* writeFile.Persist(obj) on the file content w
Persist(w, key, value, fail) ==
    writeRecord(w, markerStringID, IntStringBytes(key, value), fail)

\* ToIntObservation: the state after the new key l was persisted with result p
EncodePersisted(st, l, p) ==
    [w |-> p.out, idMap |-> l.idMap, calls |-> st.calls + 1, err |-> p.err,
     keys |-> Append(st.keys, l.key)]

\* ToIntObservation: the key l of a string field was looked up
EncodeLooked(st, value, fail, l) ==
    IF ~l.isNew THEN [st EXCEPT !.keys = Append(@, l.key)]
    ELSE EncodePersisted(st, l, Persist(st.w, l.key, value, fail))

\* One string field of ToIntObservation: st holds the file content, the
\* dictionary, the number of writeRecord calls made and the error so far.
EncodeField(st, value, io) ==
    IF st.err # "nil" THEN st
    ELSE Only({EncodeLooked(st, value, FailOf(io, st.calls + 1), l) :
                  l \in {LookupOrAssign(st.idMap, value)}})

\* ToIntObservation: the result after the three string fields
EncodeResult(obs, s3) ==
    [w |-> s3.w, idMap |-> s3.idMap, calls |-> s3.calls, err |-> s3.err,
     intobs |-> IF s3.err = "nil"
                THEN [Timestamp |-> obs.Timestamp, Ok |-> obs.Ok,
                      JobID |-> s3.keys[1], SrcHost |-> s3.keys[2],
                      DestHost |-> s3.keys[3]]
                ELSE [Timestamp |-> 0, Ok |-> FALSE, JobID |-> 0, SrcHost |-> 0,
                      DestHost |-> 0]]

\* ToIntObservation(obs, file.idMap, file)
ToIntObservation(obs, w, idMap, calls, io) ==
    Only({EncodeResult(obs, s3) :
            s3 \in {EncodeField(s2, obs.DestHost, io) :
                s2 \in {EncodeField(s1, obs.SrcHost, io) :
                    s1 \in {EncodeField([w |-> w, idMap |-> idMap, calls |-> calls,
                                         err |-> "nil", keys |-> <<>>],
                                        obs.JobID, io)}}}})

-----------------------------------------------------------------------------
(* Replay of a file *)

RECURSIVE IterateRecords(_, _, _)

\* IterateRecordFile, case markerObservation: the observation o was resolved
IterateResolved(rec, o, m, acc) ==
    IF o.err # "nil" THEN [err |-> "unknown key", obs |-> acc]
    ELSE IterateRecords(rec.rest, m, Append(acc, o.obs))

\* IterateRecordFile, case markerObservation: the payload was unmarshalled
IterateObservation(rec, i, m, acc) ==
    IF i.err # "nil" THEN [err |-> "error on unmarshalling", obs |-> acc]
    ELSE IterateResolved(rec, IntObsToObservation(i.intobs, m), m, acc)

\* IterateRecordFile, case markerStringID: the payload was unmarshalled
IterateStringID(rec, raw, m, acc) ==
    IF raw.err # "nil" THEN [err |-> "error on reading StringIDMap", obs |-> acc]
    ELSE IterateRecords(rec.rest, MapAppend(m, raw.key, raw.value), acc)

\* IterateRecordFile: the record rec was read
IterateRecord(rec, m, acc) ==
    IF rec.err # "nil" THEN [err |-> rec.err, obs |-> acc]
    ELSE IF rec.value.isNil THEN [err |-> "nil", obs |-> acc]
    ELSE IF rec.marker = markerStringID
         THEN IterateStringID(rec, IntStringFromBytes(rec.value.bytes), m, acc)
    ELSE IF rec.marker = markerObservation
         THEN IterateObservation(rec, IntObsFromBytes(rec.value.bytes), m, acc)
    ELSE IF rec.marker = markerOpen
         THEN IterateRecords(rec.rest, m, acc)
    ELSE [err |-> "invalid file format", obs |-> acc]

\* The loop of IterateRecordFile over the unread bytes r, with the file's
\* private dictionary m and the observations handed to the visitor so far.
IterateRecords(r, m, acc) ==
    Only({IterateRecord(rec, m, acc) : rec \in {readRecord(r)}})

NoEntry == [kind |-> "none", data |-> <<>>, mtime |-> 0]
FileEntry(data, mtime) == [kind |-> "file", data |-> data, mtime |-> mtime]
DirEntry(mtime) == [kind |-> "dir", data |-> <<>>, mtime |-> mtime]

\* IterateRecordFile(filename, visitor) on the directory entry of filename;
\* obs lists the observations the visitor is called with, in order.
IterateRecordFile(entry) ==
    IF entry.kind = "none" THEN [err |-> "not exist", obs |-> <<>>]
    ELSE IF entry.kind = "dir" THEN [err |-> "is a directory", obs |-> <<>>]
    ELSE IterateRecords(entry.data, NewStringIDMap, <<>>)

RECURSIVE LoadRecords(_, _)

\* loadStringIDMap, case markerStringID: the payload was unmarshalled
LoadStringID(rec, raw, objects) ==
    IF raw.err # "nil" THEN [err |-> "reading StringIDMap failed", objects |-> <<>>]
    ELSE LoadRecords(rec.rest, Append(objects, [key |-> raw.key, value |-> raw.value]))

\* loadStringIDMap: the record rec was read
LoadRecord(rec, objects) ==
    IF rec.err # "nil" THEN [err |-> "reading StringIDMap failed", objects |-> <<>>]
    ELSE IF rec.value.isNil THEN [err |-> "nil", objects |-> objects]
    ELSE IF rec.marker = markerStringID
         THEN LoadStringID(rec, IntStringFromBytes(rec.value.bytes), objects)
    ELSE IF rec.marker \in {markerObservation, markerOpen}
         THEN LoadRecords(rec.rest, objects)
    ELSE [err |-> "invalid file format", objects |-> <<>>]

\* The loop of loadStringIDMap: the STRING_ID entries of the unread bytes r
LoadRecords(r, objects) ==
    Only({LoadRecord(rec, objects) : rec \in {readRecord(r)}})

\* loadStringIDMap: the loop ended with l
LoadedIDMap(l) ==
    IF l.err # "nil" THEN [err |-> l.err, idMap |-> <<>>]
    ELSE [err |-> "nil", idMap |-> NewStringIDMapFromData(l.objects)]

\* loadStringIDMap(filename) on the directory entry of filename
loadStringIDMap(entry) ==
    IF entry.kind = "none" THEN [err |-> "nil", idMap |-> NewStringIDMap]
    ELSE IF entry.kind = "dir" THEN [err |-> "reading StringIDMap failed", idMap |-> <<>>]
    ELSE LoadedIDMap(LoadRecords(entry.data, <<>>))

-----------------------------------------------------------------------------
(* Bounds of the model *)

MaxTime == 90        \* the clock stops here
MaxObs == 2          \* observations Run receives
MaxFailures == 1     \* I/O calls that return an error
Lag == 59            \* an observation's timestamp is now or Lag minutes ago
MaxRecords == 2      \* writeRecord calls of the codec's writer

MaxHour == 2         \* the last hour a file of the directory is named for

Hour == 60
Hours == 0 .. Max(MaxTime \div Hour, MaxHour)

\* the clock advances in steps of these many minutes
Deltas == {30, 59}

-----------------------------------------------------------------------------
(* Hourly file manager *)

\* startOfHourUTC(t)
startOfHourUTC(t) == t - (t % Hour)

\* the file name "<prefix>-<YYYY-MM-DD-HH>.records" of the hour t lies in,
\* as the number of that hour
HourOf(t) == startOfHourUTC(t) \div Hour

\* two decimal digits in ASCII
Digits2(x) == Cat(Bytes(48 + (x \div 10), 1), Bytes(48 + (x % 10), 1))

\* []byte(now.UTC().Format("15:04:05")), the seconds being 00
TimeOfDay(now) ==
    Cat(Cat(Cat(Cat(Digits2((now \div Hour) % 24), Bytes(58, 1)),
                Digits2(now % Hour)), Bytes(58, 1)), Digits2(0))

\* no currentFile stored yet
NoCurrent ==
    [set |-> FALSE, hour |-> 0, end |-> 0, idMap |-> <<>>, closed |-> FALSE,
     detached |-> FALSE, opened |-> 0, recovered |-> FALSE, failed |-> FALSE]

\* I/O outcomes of one handler: the failAt-th writeRecord call fails in the
\* way `how` (see writeRecord), os.Remove or os.OpenFile fail.  The model
\* lets the first writeRecord call of a handler fail.
IOOk == [failAt |-> 0, how |-> 0, removeFails |-> FALSE, openFails |-> FALSE]

IOFailures ==
    {[IOOk EXCEPT !.failAt = 1, !.how = k] : k \in {1, 3}}
    \cup {[IOOk EXCEPT !.removeFails = TRUE], [IOOk EXCEPT !.openFails = TRUE]}

\* variant of nextUTC: 61 minutes after now, not cut to the hour
nextPlain(now) == now + 61

\* variant of nextUTC: the start of the hour of now, no hour added
nextSameHour(now) == startOfHourUTC(now)

\* variant of RemoveCorrupt: the corrupt file stays
RemoveSkipped(entry, io) == entry

\* getFile: next := now.Add(61 * time.Minute); nextUTC := startOfHourUTC(next)
nextUTC(now) == startOfHourUTC(now + 61)

\* getFile: os.Remove of the corrupt file, which fails or leaves no entry
RemoveCorrupt(entry, io) == IF io.removeFails THEN entry ELSE NoEntry

\* file.file.Close() on the writeFile being replaced
Closed(file) == IF file.set THEN [file EXCEPT !.closed = TRUE] ELSE file

\* os.OpenFile with O_CREATE: the entry the handle refers to
Created(entry) == IF entry.kind = "none" THEN FileEntry(<<>>, clock) ELSE entry

\* the entry after a write left `out` in the file
Appended(entry, out) == IF out # entry.data THEN FileEntry(out, clock) ELSE entry

\* getFile: the OPEN record was written with result o to the file of hour h,
\* whose dictionary was loaded with result l and whose entry was e1
getFileOpened(io, h, l, e1, o) ==
    [err |-> o.err,
     cur |-> IF o.err # "nil" THEN Closed(cur)
             ELSE [set |-> TRUE, hour |-> h, end |-> nextUTC(clock),
                   idMap |-> IF l.err # "nil" THEN NewStringIDMap ELSE l.idMap,
                   closed |-> FALSE, detached |-> FALSE, opened |-> clock,
                   recovered |-> l.err # "nil" /\ ~io.removeFails,
                   failed |-> FALSE],
     fs |-> [fs EXCEPT ![h] = Appended(Created(e1), o.out)],
     stored |-> IF l.err # "nil" /\ ~io.removeFails
                THEN [stored EXCEPT ![h] = <<>>] ELSE stored,
     sweeps |-> sweeps + 1, calls |-> 1,
     hit |-> o.err # "nil" \/ (l.err # "nil" /\ io.removeFails),
     rot |-> TRUE]

\* getFile: os.OpenFile on the entry e1 left by loading the dictionary
getFileOpen(io, h, l, e1) ==
    IF io.openFails \/ e1.kind = "dir"
    THEN [err |-> "open failed", cur |-> Closed(cur),
          fs |-> [fs EXCEPT ![h] = e1],
          stored |-> IF l.err # "nil" /\ ~io.removeFails
                     THEN [stored EXCEPT ![h] = <<>>] ELSE stored,
          sweeps |-> sweeps + 1, calls |-> 0,
          hit |-> io.openFails \/ (l.err # "nil" /\ io.removeFails),
          rot |-> TRUE]
    ELSE Only({getFileOpened(io, h, l, e1, o) :
                  o \in {writeRecord(Created(e1).data, markerOpen, TimeOfDay(clock),
                                     FailOf(io, 1))}})

\* getFile: the rotation branch, the dictionary of hour h loaded with result l
getFileRotate(io, h, l) ==
    Only({getFileOpen(io, h, l, e1) :
            e1 \in {IF l.err # "nil" THEN RemoveCorrupt(fs[h], io) ELSE fs[h]}})

\* obsWriter.getFile(): the writer's state after the call, the error it
\* returns, the number of writeRecord calls it made, whether an I/O call
\* failed (hit) and whether it entered the rotation branch (rot).
getFile(io) ==
    IF cur.set /\ ~(clock > cur.end)
    THEN [err |-> "nil", cur |-> cur, fs |-> fs, stored |-> stored,
          sweeps |-> sweeps, calls |-> 0, hit |-> FALSE, rot |-> FALSE]
    ELSE Only({getFileRotate(io, HourOf(clock), l) :
                  l \in {loadStringIDMap(fs[HourOf(clock)])}})

\* history of a Run step: the writeFile before it and what getFile did
Event(g) ==
    [op |-> "run", now |-> clock, had |-> cur.set, opened |-> cur.opened,
     rot |-> g.rot, err |-> g.err]

\* what a write through the current handle leaves in the directory
Written(g, data) ==
    IF g.cur.detached \/ data = g.fs[g.cur.hour].data THEN g.fs
    ELSE [g.fs EXCEPT ![g.cur.hour] = FileEntry(data, clock)]

\* Run, case <-w.ticker.C; file.file.Sync() fails or not, and either way
\* the step only logs it
RunTick(io, syncFails) ==
    /\ ~qry.set
    /\ sweeps = 0
    /\ io # IOOk => budget.fails < MaxFailures /\ ~syncFails
    /\ \E g \in {getFile(io)} :
        /\ io # IOOk => g.hit
        /\ syncFails => g.err = "nil"
        /\ budget' = [budget EXCEPT !.fails = IF g.hit THEN @ + 1 ELSE @]
        /\ cur' = g.cur
        /\ fs' = g.fs
        /\ stored' = g.stored
        /\ sweeps' = g.sweeps
        /\ ev' = Event(g)
        /\ UNCHANGED qry
        /\ UNCHANGED <<clock, retentionHours, codecVars, asideVars>>

\* Run, case obs := <-w.obsChan: writeRecord of the observation returned a
ObsAppended(obs, g, t, a) ==
    IF a.err # "nil"
    THEN [cur |-> [g.cur EXCEPT !.idMap = t.idMap, !.failed = TRUE],
          fs |-> Written(g, a.out), stored |-> g.stored, hit |-> TRUE, g |-> g]
    ELSE [cur |-> [g.cur EXCEPT !.idMap = t.idMap],
          fs |-> Written(g, a.out),
          stored |-> IF g.cur.detached THEN g.stored
                     ELSE [g.stored EXCEPT ![g.cur.hour] = Append(@, obs)],
          hit |-> g.hit, g |-> g]

\* Run, case obs := <-w.obsChan: ToIntObservation returned t
ObsEncoded(obs, io, g, t) ==
    IF t.err # "nil"
    THEN [cur |-> [g.cur EXCEPT !.idMap = t.idMap, !.failed = TRUE],
          fs |-> Written(g, t.w), stored |-> g.stored, hit |-> TRUE, g |-> g]
    ELSE Only({ObsAppended(obs, g, t, a) :
                  a \in {writeRecord(t.w, markerObservation, IntObsToBytes(t.intobs),
                                     FailOf(io, t.calls + 1))}})

\* Run, case obs := <-w.obsChan: getFile returned g
ObsFile(obs, io, g) ==
    IF g.err # "nil"
    THEN [cur |-> g.cur, fs |-> g.fs, stored |-> g.stored, hit |-> g.hit, g |-> g]
    ELSE Only({ObsEncoded(obs, io, g, t) :
                  t \in {ToIntObservation(obs, g.fs[g.cur.hour].data, g.cur.idMap,
                                          g.calls, io)}})

\* Run, case obs := <-w.obsChan: the state after the step
ObsStep(obs, io) == Only({ObsFile(obs, io, g) : g \in {getFile(io)}})

RunObs(obs, io) ==
    /\ ~qry.set
    /\ sweeps = 0
    /\ budget.obs < MaxObs
    /\ io # IOOk => budget.fails < MaxFailures
    /\ \E r \in {ObsStep(obs, io)} :
        /\ io # IOOk => r.hit
        /\ budget' = [budget EXCEPT !.obs = @ + 1,
                                    !.fails = IF r.hit THEN @ + 1 ELSE @]
        /\ cur' = r.cur
        /\ fs' = r.fs
        /\ stored' = r.stored
        /\ sweeps' = r.g.sweeps
        /\ ev' = Event(r.g)
        /\ UNCHANGED qry
        /\ UNCHANGED <<clock, retentionHours, codecVars, asideVars>>

-----------------------------------------------------------------------------
(* Retention sweep *)

\* variant of Expired: the sweep deletes every file, whatever its age
ExpiredWhateverAge == {h \in Hours : fs[h].kind = "file"}

\* obsWriter.cleanOldFiles(): the hours whose file it deletes
Expired ==
    LET hours == IF retentionHours <= 0 THEN 1 ELSE retentionHours
        limitUTC == startOfHourUTC(clock - hours * Hour)
    IN  {h \in Hours : fs[h].kind = "file" /\ fs[h].mtime < limitUTC}

\* the goroutine getFile starts
CleanOldFiles ==
    /\ ~qry.set
    /\ sweeps > 0
    /\ sweeps' = sweeps - 1
    /\ fs' = [h \in Hours |-> IF h \in Expired THEN NoEntry ELSE fs[h]]
    /\ stored' = [h \in Hours |-> IF h \in Expired THEN <<>> ELSE stored[h]]
    /\ cur' = IF cur.set /\ ~cur.closed /\ cur.hour \in Expired
              THEN [cur EXCEPT !.detached = TRUE] ELSE cur
    /\ UNCHANGED <<clock, retentionHours, ev, budget, qry, codecVars, asideVars>>

-----------------------------------------------------------------------------
(* Query / replay engine *)

\* var empty time.Time: the zero time, long before every other time
empty == -1000000

\* a []string filter option: nil, or a slice of keys
NilFilter == [isNil |-> TRUE, keys |-> {}]
Filter(keys) == [isNil |-> FALSE, keys |-> keys]

\* createFilter(keys) applied to key
createFilter(f, key) == IF f.isNil THEN TRUE ELSE key \in f.keys

\* variant of AscendingHours: the latest hour first
RECURSIVE DescendingHours(_)
DescendingHours(S) ==
    IF S = {} THEN <<>>
    ELSE <<SetMax(S)>> \o DescendingHours(S \ {SetMax(S)})

\* the hours of S in ascending order (append in the loop of GetRecordFiles)
RECURSIVE AscendingHours(_)
AscendingHours(S) ==
    IF S = {} THEN <<>>
    ELSE <<SetMin(S)>> \o AscendingHours(S \ {SetMin(S)})

\* GetRecordFiles(directory, prefix, start, end): the hours of the files it
\* lists, ascending
GetRecordFiles(start, end) ==
    LET range == {h \in Hours : /\ startOfHourUTC(start) <= h * Hour
                                /\ h * Hour <= startOfHourUTC(end)}
    IN  IF \E h \in range : fs[h].kind = "dir"
        THEN [err |-> "is not a file", files |-> <<>>]
        ELSE [err |-> "nil",
              files |-> AscendingHours({h \in range : fs[h].kind = "file"})]

\* the window and the limit ListObservations works with
Window(options) ==
    LET now == clock
        startLimit == now - 24 * Hour
        start == IF options.Start > now THEN now
                 ELSE IF options.Start < startLimit THEN startLimit
                 ELSE options.Start
    IN  [start |-> start, startLimit |-> startLimit,
         end |-> IF options.End = empty THEN now ELSE options.End,
         limit |-> IF options.Limit = 0 THEN 10000 ELSE options.Limit]

\* the visitor of ListObservations: does it append obs to the result
Accepts(options, obs, n) ==
    LET win == Window(options) IN
    /\ n # win.limit
    /\ ~(obs.Timestamp < win.start \/ obs.Timestamp > win.end)
    /\ ~(obs.Ok /\ options.FailuresOnly)
    /\ createFilter(options.FilterJobIDs, obs.JobID)
    /\ createFilter(options.FilterSrcHosts, obs.SrcHost)
    /\ createFilter(options.FilterDestHosts, obs.DestHost)

\* the visitor called with every observation of one file in turn
RECURSIVE Visit(_, _, _)
Visit(options, obs, result) ==
    IF obs = <<>> THEN result
    ELSE Visit(options, Tail(obs),
               IF Accepts(options, Head(obs), Len(result))
               THEN Append(result, Head(obs)) ELSE result)

RECURSIVE Collect(_, _, _)

\* variant of CollectFile: a file whose replay fails is skipped
CollectFileSkipping(options, files, result, it) ==
    Collect(options, Tail(files),
            IF it.err # "nil" THEN result ELSE Visit(options, it.obs, result))

\* ListObservations: IterateRecordFile of the first of files returned it
CollectFile(options, files, result, it) ==
    IF it.err # "nil" THEN [err |-> it.err, result |-> <<>>]
    ELSE Collect(options, Tail(files), Visit(options, it.obs, result))

\* the loop of ListObservations over the files
Collect(options, files, result) ==
    IF files = <<>> \/ Len(result) = Window(options).limit
    THEN [err |-> "nil", result |-> result]
    ELSE Only({CollectFile(options, files, result, it) :
                  it \in {IterateRecordFile(fs[Head(files)])}})

\* variant of SortByTimestamp: the result stays in the order it was collected
Unsorted(s) == s

\* sort.Sort(result) with Less comparing timestamps: an insertion sort for
\* the short results of this model
RECURSIVE SortByTimestamp(_)
SortByTimestamp(s) ==
    IF s = <<>> THEN <<>>
    ELSE LET rest == SortByTimestamp(SubSeq(s, 1, Len(s) - 1))
             x == s[Len(s)]
             k == Cardinality({i \in 1 .. Len(rest) : rest[i].Timestamp <= x.Timestamp})
         IN  SubSeq(rest, 1, k) \o <<x>> \o SubSeq(rest, k + 1, Len(rest))

\* ListObservations: the loop over the files ended with c
ListSorted(c) ==
    IF c.err # "nil" THEN [err |-> c.err, result |-> <<>>]
    ELSE [err |-> "nil", result |-> SortByTimestamp(c.result)]

\* ListObservations: GetRecordFiles returned files
ListFiles(options, files) ==
    IF files.err # "nil" THEN [err |-> files.err, result |-> <<>>]
    ELSE Only({ListSorted(c) : c \in {Collect(options, files.files, <<>>)}})

\* ListObservations: the window win is set
ListWindow(options, win) ==
    IF options.End # empty /\ (options.End > win.start \/ options.End < win.startLimit)
    THEN [err |-> "nil", result |-> <<>>]
    ELSE Only({ListFiles(options, files) :
                  files \in {GetRecordFiles(win.start, win.end)}})

\* obsWriter.ListObservations(options)
ListObservations(options) ==
    Only({ListWindow(options, win) : win \in {Window(options)}})

\* the queries of the model
QueryOptions ==
    {[Start |-> s, End |-> e, Limit |-> 0, FailuresOnly |-> FALSE,
      FilterJobIDs |-> NilFilter, FilterSrcHosts |-> NilFilter,
      FilterDestHosts |-> NilFilter] :
        <<s, e>> \in {<<empty, empty>>, <<empty, clock>>, <<Hour, empty>>}}
    \cup {[Start |-> empty, End |-> empty, Limit |-> 1, FailuresOnly |-> FALSE,
           FilterJobIDs |-> NilFilter, FilterSrcHosts |-> NilFilter,
           FilterDestHosts |-> NilFilter],
          [Start |-> empty, End |-> empty, Limit |-> 0, FailuresOnly |-> TRUE,
           FilterJobIDs |-> Filter({"B"}), FilterSrcHosts |-> Filter({"h1", "h2"}),
           FilterDestHosts |-> NilFilter]}

\* a client calls ListObservations and holds what it returned
Query(options) ==
    /\ ~qry.set
    /\ sweeps = 0
    /\ \E r \in {ListObservations(options)} :
        /\ qry' = [set |-> TRUE, options |-> options, err |-> r.err,
                   result |-> r.result]
        /\ UNCHANGED <<clock, fs, cur, sweeps, retentionHours, stored, ev, budget,
                       codecVars, asideVars>>

-----------------------------------------------------------------------------
(* The store's specification *)

\* the probes' observations
Profiles ==
    {[Ok |-> TRUE, JobID |-> "A", SrcHost |-> "h1", DestHost |-> "h2"],
     [Ok |-> FALSE, JobID |-> "B", SrcHost |-> "h2", DestHost |-> "h1"]}

Observation(p, ts) ==
    [Timestamp |-> ts, Ok |-> p.Ok, JobID |-> p.JobID, SrcHost |-> p.SrcHost,
     DestHost |-> p.DestHost]

ObsInputs ==
    {Observation(p, clock) : p \in Profiles}
    \cup {Observation(p, clock - Lag) : p \in {q \in Profiles : clock >= Lag /\ ~q.Ok}}

\* the file after the encoded observation t is appended
FileWithObs(t) == writeRecord(t.w, markerObservation, IntObsToBytes(t.intobs), 0).out

\* a file an earlier run of the agent left behind: the records written when
\* the file was opened at `now` and observation obs was appended
FileOfRun(now, obs) ==
    FileWithObs(ToIntObservation(obs,
                                 writeRecord(<<>>, markerOpen, TimeOfDay(now), 0).out,
                                 NewStringIDMap, 0, IOOk))

OldObs == Observation(CHOOSE p \in Profiles : p.JobID = "A", 0)

NoFiles == [h \in Hours |-> NoEntry]

\* the store directory when the agent starts
InitialDirs ==
    { [dir |-> NoFiles, obs |-> <<>>],
      \* the current hour's file exists (restart within the hour)
      [dir |-> [NoFiles EXCEPT ![0] = FileEntry(FileOfRun(0, OldObs), 0)],
       obs |-> <<OldObs>>],
      \* a dictionary entry is cut off inside the record
      [dir |-> [NoFiles EXCEPT ![0] =
                   FileEntry(Persist(writeRecord(<<>>, markerOpen, TimeOfDay(0), 0).out,
                                     1, "A", 4).out, 0)],
       obs |-> <<>>],
      \* a record with an unknown marker
      [dir |-> [NoFiles EXCEPT ![0] =
                   FileEntry(writeRecord(FileOfRun(0, OldObs), 9, Bytes(0, 1), 0).out, 0)],
       obs |-> <<>>] }

CodecIdle ==
    /\ stream = <<>>
    /\ wr = [state |-> "idle", calls |-> 0, done |-> 0]
    /\ log = <<>>
    /\ rd = [set |-> FALSE]

\* NewObsWriter: empty channels, a running ticker, Run started, nobody
\* calling Add or Stop
PipeIdle ==
    /\ obsChan = <<>>
    /\ pipe = [run |-> "select", stop |-> "idle", ticker |-> TRUE,
               calling |-> FALSE, added |-> 0, dropped |-> {}, leaked |-> 0,
               atStop |-> -1]

\* no sweep under way in an empty directory
SweepIdle ==
    /\ entries = <<>>
    /\ sweepers = <<>>

AsideIdle == PipeIdle /\ SweepIdle

StoreIdle ==
    /\ clock = 0
    /\ fs = [h \in Hours |-> NoEntry]
    /\ stored = [h \in Hours |-> <<>>]
    /\ cur = NoCurrent
    /\ sweeps = 0
    /\ retentionHours = 0
    /\ ev = [op |-> "start"]
    /\ qry = [set |-> FALSE]
    /\ budget = [obs |-> 0, fails |-> 0]

Init ==
    /\ clock = 0
    /\ \E d \in InitialDirs :
          /\ fs = d.dir
          /\ stored = [h \in Hours |-> IF h = 0 THEN d.obs ELSE <<>>]
    /\ cur = NoCurrent
    /\ sweeps = 0
    /\ retentionHours = 0
    /\ ev = [op |-> "start"]
    /\ qry = [set |-> FALSE]
    /\ budget = [obs |-> 0, fails |-> 0]
    /\ CodecIdle
    /\ AsideIdle

\* the client is done with the result
QueryReturn ==
    /\ qry.set
    /\ qry' = [set |-> FALSE]
    /\ UNCHANGED <<clock, fs, cur, sweeps, retentionHours, stored, ev, budget, codecVars, asideVars>>

\* time passes; a started sweep has run by then
Tick(d) ==
    /\ ~qry.set
    /\ sweeps = 0
    /\ clock + d <= MaxTime
    /\ clock' = clock + d
    /\ UNCHANGED <<fs, cur, sweeps, retentionHours, stored, ev, budget, qry, codecVars, asideVars>>

Next ==
    \/ \E d \in Deltas : Tick(d)
    \/ \E obs \in ObsInputs, io \in {IOOk} \cup IOFailures : RunObs(obs, io)
    \/ \E io \in {IOOk} \cup IOFailures, syncFails \in BOOLEAN : RunTick(io, syncFails)
    \/ CleanOldFiles
    \/ \E options \in QueryOptions : Query(options)
    \/ QueryReturn

Spec == Init /\ [][Next]_vars

-----------------------------------------------------------------------------
(* The codec's specification: a writer appends records to one stream with  *)
(* writeRecord, one Write at a time, and a reader replays what the stream  *)
(* holds at that moment.                                                   *)

\* payload lengths and fill bytes of the OPEN records written
PayloadLens == {0, 1, 2, 65535, 65536, 65537}
FillBytes == {0, 2}

\* the observation of the codec's OBSERVATION record and its encoding
CodecObs == [Timestamp |-> 0, Ok |-> TRUE, JobID |-> "A", SrcHost |-> "A", DestHost |-> "A"]
CodecIntObs == [Timestamp |-> 0, Ok |-> TRUE, JobID |-> 1, SrcHost |-> 1, DestHost |-> 1]

\* the records writeRecord is called with
Requests ==
    {[marker |-> markerOpen, value |-> Bytes(b, n)] : b \in FillBytes, n \in PayloadLens}
    \cup {[marker |-> markerStringID, value |-> IntStringBytes(1, "A")],
          [marker |-> markerObservation, value |-> IntObsToBytes(CodecIntObs)]}

\* all bytes of the record of log entry e are in the stream
Complete(e) == e.bytes = 3 + SLen(e.value)

\* the stream after the first k Writes of writeRecord(w, marker, value)
AfterWrites(w, marker, value, k) ==
    writeRecord(w, marker, value, CASE k = 0 -> 1 [] k = 1 -> 2 [] k = 2 -> 3 [] k = 3 -> 0).out

\* writeRecord is called
CallWriteRecord(req) ==
    /\ ~rd.set
    /\ wr.state = "idle"
    /\ wr.calls < MaxRecords
    /\ req.marker = markerObservation =>
          \E i \in 1 .. Len(log) : log[i].marker = markerStringID /\ Complete(log[i])
    /\ wr' = [state |-> "busy", calls |-> wr.calls + 1, done |-> 0]
    /\ log' = Append(log, [marker |-> req.marker, value |-> req.value,
                           off |-> SLen(stream), bytes |-> 0, ret |-> "pending"])
    /\ UNCHANGED <<stream, rd, storeVars, asideVars>>

\* the log after the call's record has grown to `out` and the call is at ret
Logged(out, ret) ==
    [log EXCEPT ![Len(log)] =
        [@ EXCEPT !.bytes = SLen(out) - log[Len(log)].off, !.ret = ret]]

\* the next Write of the call succeeds
WriteStep ==
    /\ ~rd.set
    /\ wr.state = "busy"
    /\ \E out \in {AfterWrites(Take(stream, log[Len(log)].off), log[Len(log)].marker,
                               log[Len(log)].value, wr.done + 1)} :
           /\ stream' = out
           /\ log' = Logged(out, IF wr.done = 2 THEN "nil" ELSE "pending")
    /\ wr' = IF wr.done = 2 THEN [wr EXCEPT !.state = "idle", !.done = 0]
             ELSE [wr EXCEPT !.done = @ + 1]
    /\ UNCHANGED <<rd, storeVars, asideVars>>

\* the next Write of the call returns an error, the payload's Write after
\* one byte when partial
WriteFails(partial) ==
    /\ ~rd.set
    /\ wr.state = "busy"
    /\ partial => wr.done = 2 /\ SLen(log[Len(log)].value) >= 2
    /\ \E out \in {writeRecord(Take(stream, log[Len(log)].off), log[Len(log)].marker,
                               log[Len(log)].value,
                               IF partial THEN 4 ELSE wr.done + 1).out} :
           /\ stream' = out
           /\ log' = Logged(out, "write failed")
    /\ wr' = [wr EXCEPT !.state = "idle", !.done = 0]
    /\ UNCHANGED <<rd, storeVars, asideVars>>

RECURSIVE ReadRecords(_, _)

\* the reader's loop: readRecord returned rec, n calls are left
ReadNext(rec, n) ==
    IF rec.err # "nil" \/ rec.value.isNil
    THEN <<[marker |-> rec.marker, value |-> rec.value, err |-> rec.err]>>
    ELSE <<[marker |-> rec.marker, value |-> rec.value, err |-> rec.err]>>
         \o ReadRecords(rec.rest, n)

\* what the first n readRecord calls return, up to the first error or end
ReadRecords(r, n) ==
    IF n = 0 THEN <<>> ELSE Only({ReadNext(rec, n - 1) : rec \in {readRecord(r)}})

\* a reader replays the bytes the stream holds now, with readRecord alone
\* (one call more than records were written) and with IterateRecordFile
Replay ==
    /\ ~rd.set
    /\ rd' = [set |-> TRUE, log |-> log, busy |-> wr.state = "busy",
              records |-> ReadRecords(stream, Len(log) + 1),
              replay |-> IterateRecords(stream, NewStringIDMap, <<>>)]
    /\ UNCHANGED <<stream, wr, log, storeVars, asideVars>>

\* the reader is done
ReplayReturn ==
    /\ rd.set
    /\ rd' = [set |-> FALSE]
    /\ UNCHANGED <<stream, wr, log, storeVars, asideVars>>

InitCodec == CodecIdle /\ StoreIdle /\ AsideIdle

NextCodec ==
    \/ \E req \in Requests : CallWriteRecord(req)
    \/ WriteStep
    \/ \E partial \in BOOLEAN : WriteFails(partial)
    \/ Replay
    \/ ReplayReturn

SpecCodec == InitCodec /\ [][NextCodec]_vars

-----------------------------------------------------------------------------
(* The query engine's specification: clients call ListObservations and     *)
(* GetRecordFiles on a directory left by earlier runs, in which the entry  *)
(* named for an hour is missing, a record file, a damaged record file or a *)
(* directory.  Nothing writes meanwhile.                                   *)

\* the content of file `data` after a writer loaded its dictionary and
\* appended obs
FileAppended(data, obs) ==
    FileWithObs(ToIntObservation(obs, data, loadStringIDMap(FileEntry(data, 0)).idMap,
                                 0, IOOk))

\* the observations a run appended to the file of hour h
HourObs(h) ==
    <<Observation(CHOOSE p \in Profiles : p.Ok, h * Hour + 10),
      Observation(CHOOSE p \in Profiles : ~p.Ok, h * Hour + 20)>>

\* the file of hour h as that run left it
HourFile(h) == FileAppended(FileOfRun(h * Hour, HourObs(h)[1]), HourObs(h)[2])

\* an OBSERVATION record whose job key no STRING_ID record defines
DanglingObs(h) ==
    IntObsToBytes([Timestamp |-> h * Hour + 30, Ok |-> TRUE, JobID |-> 9,
                   SrcHost |-> 1, DestHost |-> 1])

\* what the entry named for hour h can be: nothing, the file, a directory,
\* the file followed by a record with an unknown marker, the file cut inside
\* its last record, the file followed by a record with an undefined key
HourEntries(h) ==
    {NoEntry, FileEntry(HourFile(h), h * Hour + 20), DirEntry(h * Hour),
     FileEntry(writeRecord(HourFile(h), 9, Bytes(0, 1), 0).out, h * Hour + 20),
     FileEntry(Take(HourFile(h), SLen(HourFile(h)) - 2), h * Hour + 20),
     FileEntry(writeRecord(HourFile(h), markerObservation, DanglingObs(h), 0).out,
               h * Hour + 20)}

\* the instants queries are made for
QueryTimes == {h * Hour + m : h \in Hours, m \in {0, 59}}

\* the options of the queries
QueryInputs ==
    {[Start |-> w[1], End |-> w[2], Limit |-> 0, FailuresOnly |-> fo,
      FilterJobIDs |-> j, FilterSrcHosts |-> s, FilterDestHosts |-> d] :
        w \in {<<empty, empty>>, <<Hour + 15, empty>>, <<Hour + 10, Hour + 10>>},
        fo \in BOOLEAN,
        j \in {NilFilter, Filter({}), Filter({"A"})},
        s \in {NilFilter, Filter({"h1"})},
        d \in {NilFilter, Filter({})}}
    \cup {[Start |-> empty, End |-> empty, Limit |-> n, FailuresOnly |-> FALSE,
           FilterJobIDs |-> NilFilter, FilterSrcHosts |-> NilFilter,
           FilterDestHosts |-> NilFilter] : n \in {1, 3}}

\* a client calls GetRecordFiles(directory, prefix, start, end) and holds
\* what it returned
RecordFiles(start, end) ==
    /\ ~qry.set
    /\ \E r \in {GetRecordFiles(start, end)} :
        qry' = [set |-> TRUE, start |-> start, end |-> end, err |-> r.err,
                files |-> r.files]
    /\ UNCHANGED <<clock, fs, cur, sweeps, retentionHours, stored, ev, budget,
                   codecVars, asideVars>>

InitQuery ==
    /\ clock = MaxHour * Hour + 30
    /\ fs \in [Hours -> UNION {HourEntries(h) : h \in Hours}]
    /\ \A h \in Hours : fs[h] \in HourEntries(h)
    /\ stored = [h \in Hours |-> IF fs[h].kind = "file" THEN HourObs(h) ELSE <<>>]
    /\ cur = NoCurrent
    /\ sweeps = 0
    /\ retentionHours = 0
    /\ ev = [op |-> "start"]
    /\ qry = [set |-> FALSE]
    /\ budget = [obs |-> 0, fails |-> 0]
    /\ CodecIdle
    /\ AsideIdle

NextQuery ==
    \/ \E options \in QueryInputs : Query(options)
    \/ \E start \in QueryTimes, end \in QueryTimes : RecordFiles(start, end)
    \/ QueryReturn

SpecQuery == InitQuery /\ [][NextQuery]_vars

-----------------------------------------------------------------------------
(* The pipeline's specification: probes call Add, one goroutine executes   *)
(* Run and the agent calls Stop once.  The clock stands still, the store   *)
(* directory starts empty.  Run is at its select, inside a case (busy),    *)
(* returned, or ended by a panic (fault); Stop is not called (idle), at    *)
(* its send on done, past it (load), returned, or ended by a panic.        *)

\* make(chan *nwpd.Observation, 100)
ChanCap == 100

\* Add calls made
MaxAdds == 102

\* the n-th observation the probes submit
PipeObs(n) ==
    Observation(CHOOSE p \in Profiles : p.Ok = (n % 4 < 2), n)

\* variant of Full: a channel without a capacity
NeverFull(ch) == FALSE

\* variant of Continue: Run returns on the first error
ReturnOnError(err) == IF err # "nil" THEN "returned" ELSE "busy"

\* history: the timestamp of the observation at the head of the channel,
\* -1 when the channel is empty
HeadTime(ch) == IF ch = <<>> THEN -1 ELSE Head(ch).Timestamp

\* variant of RunDone: Run takes the stop signal and stays in its loop
RunDoneGoesOn ==
    /\ pipe.run = "select"
    /\ pipe.stop = "send"
    /\ pipe' = [pipe EXCEPT !.stop = "load"]
    /\ UNCHANGED <<obsChan, codecVars, storeVars, sweepVars>>

\* a send on obsChan cannot proceed
Full(ch) == Len(ch) >= ChanCap

\* Run: `continue` after the Warnf of a case, or the case's end: the loop
\* goes on either way
Continue(err) == "busy"

\* Run, case obs := <-w.obsChan: the error the step logged
StepErr(r) ==
    IF r.g.err # "nil" THEN r.g.err
    ELSE IF r.stored = r.g.stored THEN "write failed" ELSE "nil"

\* getFile returned the error of the OPEN record's writeRecord: the handle f
\* of os.OpenFile is neither stored nor closed
Leaked(g) == g.rot /\ g.err \notin {"nil", "open failed"}

\* a probe calls Add(obs)
AddCall ==
    /\ ~pipe.calling
    /\ pipe.added < MaxAdds
    /\ pipe' = [pipe EXCEPT !.calling = TRUE]
    /\ UNCHANGED <<obsChan, codecVars, storeVars, sweepVars>>

\* Add: w.obsChan <- obs proceeds and Add returns
AddSend ==
    /\ pipe.calling
    /\ ~Full(obsChan)
    /\ obsChan' = Append(obsChan, PipeObs(pipe.added))
    /\ pipe' = [pipe EXCEPT !.calling = FALSE, !.added = @ + 1]
    /\ UNCHANGED <<codecVars, storeVars, sweepVars>>

\* Run, case obs := <-w.obsChan
RunReceive(io) ==
    /\ pipe.run = "select"
    /\ obsChan # <<>>
    /\ sweeps = 0
    /\ budget.obs < MaxObs
    /\ io # IOOk => budget.fails < MaxFailures
    /\ \E r \in {ObsStep(Head(obsChan), io)} :
        /\ io # IOOk => r.hit
        /\ budget' = [budget EXCEPT !.obs = @ + 1,
                                    !.fails = IF r.hit THEN @ + 1 ELSE @]
        /\ cur' = r.cur
        /\ fs' = r.fs
        /\ stored' = r.stored
        /\ sweeps' = r.g.sweeps
        /\ ev' = Event(r.g)
        /\ obsChan' = Tail(obsChan)
        /\ pipe' = [pipe EXCEPT
                       !.run = Continue(StepErr(r)),
                       !.dropped = IF StepErr(r) # "nil"
                                   THEN @ \cup {Head(obsChan).Timestamp} ELSE @,
                       !.leaked = IF Leaked(r.g) THEN @ + 1 ELSE @]
        /\ UNCHANGED <<clock, retentionHours, qry, codecVars, sweepVars>>

\* Run, case <-w.ticker.C
RunSync(io) ==
    /\ pipe.run = "select"
    /\ pipe.ticker
    /\ sweeps = 0
    /\ io # IOOk => budget.fails < MaxFailures
    /\ \E g \in {getFile(io)} :
        /\ io # IOOk => g.hit
        /\ budget' = [budget EXCEPT !.fails = IF g.hit THEN @ + 1 ELSE @]
        /\ cur' = g.cur
        /\ fs' = g.fs
        /\ stored' = g.stored
        /\ sweeps' = g.sweeps
        /\ ev' = Event(g)
        /\ pipe' = [pipe EXCEPT !.run = Continue(g.err),
                                !.leaked = IF Leaked(g) THEN @ + 1 ELSE @]
        /\ UNCHANGED <<clock, retentionHours, qry, obsChan, codecVars, sweepVars>>

\* Run: back at the select, which evaluates w.ticker.C.  Once Stop has
\* written w.ticker = nil, this unsynchronised read sees the ticker (seesNil
\* false) or nil, and then Run ends with a nil dereference.
RunLoop(seesNil) ==
    /\ pipe.run = "busy"
    /\ seesNil => ~pipe.ticker
    /\ pipe' = [pipe EXCEPT !.run = IF seesNil THEN "fault" ELSE "select"]
    /\ UNCHANGED <<obsChan, codecVars, storeVars, sweepVars>>

\* Stop: w.ticker.Stop(); w.ticker = nil; then Stop is at w.done <- struct{}{}
StopCall ==
    /\ pipe.stop = "idle"
    /\ pipe' = [pipe EXCEPT !.stop = "send", !.ticker = FALSE,
                            !.atStop = HeadTime(obsChan)]
    /\ UNCHANGED <<obsChan, codecVars, storeVars, sweepVars>>

\* Run, case <-w.done: the unbuffered send of Stop and this receive meet
RunDone ==
    /\ pipe.run = "select"
    /\ pipe.stop = "send"
    /\ pipe' = [pipe EXCEPT !.run = "returned", !.stop = "load"]
    /\ UNCHANGED <<obsChan, codecVars, storeVars, sweepVars>>

\* variant of StopClose: Stop closes the file without handing over the stop
\* signal first
StopCloseAtOnce ==
    /\ pipe.stop = "send"
    /\ cur.set
    /\ pipe' = [pipe EXCEPT !.stop = "returned"]
    /\ cur' = Closed(cur)
    /\ UNCHANGED <<clock, fs, sweeps, retentionHours, stored, ev, qry, budget,
                   obsChan, codecVars, sweepVars>>

\* Stop: file := w.currentFile.Load().(*writeFile), a type assertion that
\* panics on the nil interface of a Value nothing was stored in; then
\* file.file.Close()
StopClose ==
    /\ pipe.stop = "load"
    /\ pipe' = [pipe EXCEPT !.stop = IF cur.set THEN "returned" ELSE "fault"]
    /\ cur' = Closed(cur)
    /\ UNCHANGED <<clock, fs, sweeps, retentionHours, stored, ev, qry, budget,
                   obsChan, codecVars, sweepVars>>

InitPipe == CodecIdle /\ StoreIdle /\ AsideIdle

NextPipe ==
    \/ AddCall
    \/ AddSend
    \/ \E io \in {IOOk} \cup IOFailures : RunReceive(io)
    \/ \E io \in {IOOk} \cup IOFailures : RunSync(io)
    \/ \E seesNil \in BOOLEAN : RunLoop(seesNil)
    \/ CleanOldFiles
    \/ StopCall
    \/ RunDone
    \/ StopClose

SpecPipe == InitPipe /\ [][NextPipe]_vars

-----------------------------------------------------------------------------
(* The sweeps' specification: rotations start cleanOldFiles goroutines,    *)
(* which run concurrently over one directory, entry by entry.  The clock   *)
(* stands still and nothing writes meanwhile.  An entry of the directory   *)
(* is a file or a directory, has the writer's prefix in its name or not,   *)
(* and stays in `entries` marked gone when it is removed.                  *)

\* the goroutines and the names of the directory, in the order of os.ReadDir
Sweepers == {1, 2}
Names == 1 .. 4

\* modification times of the record files, around the limits
Mtimes == {Hour - 1, Hour, 2 * Hour - 1, 2 * Hour, 2 * Hour + 30}

\* w.retentionHours
Retentions == {-1, 0, 1, 2}

\* variant of hours: w.retentionHours as it is
hoursUnchecked == retentionHours

\* variant of Advance: the sweep returns when os.Remove failed
AdvanceOrReturn(s, err) ==
    IF err \/ s.i = Len(s.files) THEN [s EXCEPT !.pc = "done"]
    ELSE [s EXCEPT !.pc = "check", !.i = @ + 1]

\* cleanOldFiles: hours := w.retentionHours; if hours <= 0 { hours = 1 }
hours == IF retentionHours <= 0 THEN 1 ELSE retentionHours

\* cleanOldFiles: limitUTC
limitUTC == startOfHourUTC(clock - hours * Hour)

\* os.ReadDir(w.directory): the names there are now, sorted
RECURSIVE ReadDir(_)
ReadDir(n) ==
    IF n \notin Names THEN <<>>
    ELSE (IF entries[n].gone THEN <<>> ELSE <<n>>) \o ReadDir(n + 1)

\* isBefore(entry, limitUTC): entry.Info() fails when the file is gone
isBefore(entry, limit) == ~entry.gone /\ entry.mtime < limit

\* cleanOldFiles: the condition of the loop's body
Old(entry, limit) == entry.kind # "dir" /\ entry.prefix /\ isBefore(entry, limit)

\* cleanOldFiles: the loop goes to the next entry, or ends
Advance(s, err) ==
    IF s.i = Len(s.files) THEN [s EXCEPT !.pc = "done"]
    ELSE [s EXCEPT !.pc = "check", !.i = @ + 1]

\* getFile: go func() { w.cleanOldFiles() }(), and getFile goes on
Spawn(p) ==
    /\ sweepers[p].pc = "none"
    /\ sweepers' = [sweepers EXCEPT ![p].pc = "start"]
    /\ UNCHANGED <<entries, codecVars, storeVars, pipeVars>>

\* cleanOldFiles up to the loop
SweepStart(p) ==
    /\ sweepers[p].pc = "start"
    /\ sweepers' = [sweepers EXCEPT ![p] =
                       [pc |-> IF ReadDir(1) = <<>> THEN "done" ELSE "check",
                        limit |-> limitUTC, files |-> ReadDir(1), i |-> 1,
                        seen |-> {}, failed |-> {}]]
    /\ UNCHANGED <<entries, codecVars, storeVars, pipeVars>>

\* cleanOldFiles: the condition for the entry the loop is at
SweepCheck(p) ==
    /\ sweepers[p].pc = "check"
    /\ sweepers' = [sweepers EXCEPT ![p] =
          IF Old(entries[sweepers[p].files[sweepers[p].i]], sweepers[p].limit)
          THEN [@ EXCEPT !.pc = "remove",
                         !.seen = @ \cup {sweepers[p].files[sweepers[p].i]}]
          ELSE Advance([@ EXCEPT !.seen = @ \cup {sweepers[p].files[sweepers[p].i]}],
                       FALSE)]
    /\ UNCHANGED <<entries, codecVars, storeVars, pipeVars>>

\* cleanOldFiles: os.Remove(filename), which fails when the file is gone
SweepRemove(p) ==
    /\ sweepers[p].pc = "remove"
    /\ \E n \in {sweepers[p].files[sweepers[p].i]} :
        /\ entries' = [entries EXCEPT ![n].gone = TRUE]
        /\ sweepers' = [sweepers EXCEPT ![p] =
              Advance([@ EXCEPT !.failed = IF entries[n].gone THEN @ \cup {n} ELSE @],
                      entries[n].gone)]
    /\ UNCHANGED <<codecVars, storeVars, pipeVars>>

\* a directory: two record files, a directory with the prefix in its name,
\* a file of somebody else
SweepDirs ==
    {[n \in Names |->
        CASE n = 1 -> [kind |-> "file", prefix |-> TRUE, mtime |-> m1, gone |-> FALSE]
          [] n = 2 -> [kind |-> "file", prefix |-> TRUE, mtime |-> m2, gone |-> FALSE]
          [] n = 3 -> [kind |-> "dir", prefix |-> TRUE, mtime |-> 0, gone |-> FALSE]
          [] n = 4 -> [kind |-> "file", prefix |-> FALSE, mtime |-> 0, gone |-> FALSE]] :
     m1 \in Mtimes, m2 \in Mtimes}

InitSweep ==
    /\ CodecIdle
    /\ PipeIdle
    /\ clock = 3 * Hour + 20
    /\ fs = [h \in Hours |-> NoEntry]
    /\ stored = [h \in Hours |-> <<>>]
    /\ cur = NoCurrent
    /\ sweeps = 0
    /\ retentionHours \in Retentions
    /\ ev = [op |-> "start"]
    /\ qry = [set |-> FALSE]
    /\ budget = [obs |-> 0, fails |-> 0]
    /\ entries \in SweepDirs
    /\ sweepers = [p \in Sweepers |-> [pc |-> "none"]]

NextSweep ==
    \/ \E p \in Sweepers : Spawn(p)
    \/ \E p \in Sweepers : SweepStart(p)
    \/ \E p \in Sweepers : SweepCheck(p)
    \/ \E p \in Sweepers : SweepRemove(p)

SpecSweep == InitSweep /\ [][NextSweep]_vars

\* every started goroutine is scheduled again and again
SpecSweepFair ==
    /\ SpecSweep
    /\ \A p \in Sweepers :
          WF_vars(SweepStart(p) \/ SweepCheck(p) \/ SweepRemove(p))

-----------------------------------------------------------------------------
(* The writer over several hours: Run handles ticks and observations while *)
(* time passes, rotations start sweeps, and Stop is called once.  A        *)
(* rotation is two steps, getFile up to the start of the sweep's goroutine *)
(* and the rest of the case, so that the sweep runs before, during or      *)
(* after the rest; a sweep takes no time.  The observations come straight  *)
(* from the probes, the channel stays out of the picture.                  *)

\* the last minute of the last hour the directory has a name for
LastMinute == (Max(MaxTime \div Hour, MaxHour) + 1) * Hour - 1

\* minutes that pass between two steps of Run
Pauses == {59, 61}

\* history of a Run step: Event(g), whether the step found the current
\* writeFile closed (wasClosed), whether it wrote or synced through a closed
\* handle (onClosed), and the hours of the files before and after
LongEvent(g) ==
    [op |-> "run", now |-> clock, had |-> cur.set, opened |-> cur.opened,
     rot |-> g.rot, err |-> g.err,
     wasClosed |-> cur.set /\ cur.closed,
     onClosed |-> g.err = "nil" /\ g.cur.closed,
     from |-> cur.hour, to |-> g.cur.hour]

\* getFile: file == nil || now.After(file.end)
RotationDue == ~cur.set \/ clock > cur.end

\* Run is inside a case, in getFile, past go func() { w.cleanOldFiles() }()
Entered == pipe.run = "getFile"

\* Run takes a tick or an observation and getFile starts the sweep
Enter ==
    /\ pipe.run = "select"
    /\ pipe.ticker
    /\ RotationDue
    /\ sweeps' = sweeps + 1
    /\ pipe' = [pipe EXCEPT !.run = "getFile"]
    /\ UNCHANGED <<clock, fs, cur, retentionHours, stored, ev, qry, budget,
                   obsChan, codecVars, sweepVars>>

\* Run, case <-w.ticker.C: the whole case, or its rest after Enter
LongTick(io) ==
    /\ Entered \/ (pipe.run = "select" /\ pipe.ticker /\ ~RotationDue)
    /\ io # IOOk => budget.fails < MaxFailures
    /\ \E g \in {getFile(io)} :
        /\ io # IOOk => g.hit
        /\ budget' = [budget EXCEPT !.fails = IF g.hit THEN @ + 1 ELSE @]
        /\ cur' = g.cur
        /\ fs' = g.fs
        /\ stored' = g.stored
        /\ sweeps' = IF Entered THEN g.sweeps - 1 ELSE g.sweeps
        /\ ev' = LongEvent(g)
        /\ pipe' = [pipe EXCEPT !.run = Continue(g.err),
                                !.leaked = IF Leaked(g) THEN @ + 1 ELSE @]
        /\ UNCHANGED <<clock, retentionHours, qry, obsChan, codecVars, sweepVars>>

\* Run, case obs := <-w.obsChan: the whole case, or its rest after Enter
LongObs(obs, io) ==
    /\ Entered \/ (pipe.run = "select" /\ ~RotationDue)
    /\ budget.obs < MaxObs
    /\ io # IOOk => budget.fails < MaxFailures
    /\ \E r \in {ObsStep(obs, io)} :
        /\ io # IOOk => r.hit
        /\ budget' = [budget EXCEPT !.obs = @ + 1,
                                    !.fails = IF r.hit THEN @ + 1 ELSE @]
        /\ cur' = r.cur
        /\ fs' = r.fs
        /\ stored' = r.stored
        /\ sweeps' = IF Entered THEN r.g.sweeps - 1 ELSE r.g.sweeps
        /\ ev' = LongEvent(r.g)
        /\ pipe' = [pipe EXCEPT !.run = Continue(StepErr(r)),
                                !.leaked = IF Leaked(r.g) THEN @ + 1 ELSE @]
        /\ UNCHANGED <<clock, retentionHours, qry, obsChan, codecVars, sweepVars>>

\* time passes while Run waits at its select; the sweeps started have run
Pass(d) ==
    /\ pipe.run = "select"
    /\ sweeps = 0
    /\ clock + d <= LastMinute
    /\ clock' = clock + d
    /\ UNCHANGED <<fs, cur, sweeps, retentionHours, stored, ev, budget, qry,
                   codecVars, asideVars>>

InitLong == CodecIdle /\ StoreIdle /\ AsideIdle

NextLong ==
    \/ \E d \in Pauses : Pass(d)
    \/ Enter
    \/ \E io \in {IOOk} \cup IOFailures : LongTick(io)
    \/ \E obs \in ObsInputs, io \in {IOOk} \cup IOFailures : LongObs(obs, io)
    \/ \E seesNil \in BOOLEAN : RunLoop(seesNil)
    \/ CleanOldFiles
    \/ StopCall
    \/ RunDone
    \/ StopClose

SpecLong == InitLong /\ [][NextLong]_vars

-----------------------------------------------------------------------------
(* Properties *)

\* the observations appended to the files of the directory, in hour order
RECURSIVE StoredFrom(_)
StoredFrom(h) == IF h \notin Hours THEN <<>> ELSE stored[h] \o StoredFrom(h + 1)

Count(s, o) == Cardinality({i \in DOMAIN s : s[i] = o})

\* a and b hold the same observations, each as often in a as in b
SameObservations(a, b) ==
    \A o \in {a[i] : i \in DOMAIN a} \cup {b[i] : i \in DOMAIN b} :
        Count(a, o) = Count(b, o)

\* Start clamped into [now - 24h, now]
ClampedStart(options) == Max(clock - 24 * Hour, Min(options.Start, clock))

\* obs lies in the window of the query and passes its filters
Matches(options, obs) ==
    /\ ClampedStart(options) <= obs.Timestamp
    /\ obs.Timestamp <= (IF options.End = empty THEN clock ELSE options.End)
    /\ options.FailuresOnly => ~obs.Ok
    /\ options.FilterJobIDs.isNil \/ obs.JobID \in options.FilterJobIDs.keys
    /\ options.FilterSrcHosts.isNil \/ obs.SrcHost \in options.FilterSrcHosts.keys
    /\ options.FilterDestHosts.isNil \/ obs.DestHost \in options.FilterDestHosts.keys

\* the stored observations a query has to return
Expected(options) == SelectSeq(StoredFrom(0), LAMBDA obs : Matches(options, obs))

Unfiltered(options) ==
    /\ ~options.FailuresOnly
    /\ options.FilterJobIDs.isNil
    /\ options.FilterSrcHosts.isNil
    /\ options.FilterDestHosts.isNil

Ascending(s) == \A i \in 1 .. Len(s) - 1 : s[i].Timestamp <= s[i + 1].Timestamp

\* C1: in every file of the directory, replaying the records in file order
\* never meets an OBSERVATION record that references a dictionary key
\* without an earlier STRING_ID record for it.
C1_DictionaryOrder ==
    \A h \in Hours :
        fs[h].kind = "file" => IterateRecordFile(fs[h]).err # "unknown key"

\* C2: a successful query with an explicit End at or after the clamped Start
\* returns the stored observations with a timestamp in [Start, End] that
\* pass the filters.
C2_WindowClamp ==
    (/\ qry.set
     /\ qry.err = "nil"
     /\ budget.fails = 0
     /\ qry.options.End # empty
     /\ qry.options.End >= ClampedStart(qry.options))
    => SameObservations(qry.result, Expected(qry.options))

\* C3: with a positive limit L and n matching stored observations a query
\* returns min(L, n) observations, each of them among the min(L, n) earliest
\* matches by timestamp.
C3_LimitEarliest ==
    (/\ qry.set
     /\ qry.err = "nil"
     /\ budget.fails = 0
     /\ qry.options.End = empty
     /\ qry.options.Limit > 0)
    => LET m == Expected(qry.options)
           k == Min(qry.options.Limit, Len(m))
       IN  /\ Len(qry.result) = k
           /\ \A i \in 1 .. Len(qry.result) :
                 /\ Count(m, qry.result[i]) > 0
                 /\ Cardinality({j \in 1 .. Len(m) :
                        m[j].Timestamp < qry.result[i].Timestamp}) < k

Due(end) == ~ev.had \/ ev.now > end

\* what a Run step does when the writeFile it finds ends at `end`
RotationRule(end) ==
    IF ev.op = "start" THEN ~cur.set
    ELSE /\ ev.rot = Due(end)
         /\ ~Due(end) => ev.err = "nil" /\ cur.set /\ cur.opened = ev.opened
         /\ (Due(end) /\ ev.err = "nil") =>
               cur.set /\ cur.opened = ev.now /\ cur.hour = HourOf(ev.now)
         /\ (Due(end) /\ ev.err # "nil") =>
               cur.set = ev.had /\ cur.opened = ev.opened

C6_EveryObservationOnce ==
    (/\ qry.set
     /\ qry.err = "nil"
     /\ budget.fails = 0
     /\ Unfiltered(qry.options)
     /\ qry.options.Limit = 0
     /\ qry.options.End = empty)
    => SameObservations(qry.result, Expected(qry.options))

Framed(l) ==
    \A i \in 1 .. Len(l) :
        /\ SLen(l[i].value) <= 65535
        /\ i < Len(l) => Complete(l[i])

\* the observations of the complete OBSERVATION records
ObsOf(l) ==
    [i \in 1 .. Len(SelectSeq(l, LAMBDA e : e.marker = markerObservation /\ Complete(e)))
        |-> CodecObs]

\* C8: a replay that runs while a writeRecord call is in progress returns
\* the observations of the complete records and no error, whatever part of
\* the record being written is in the stream.
C8_ConcurrentReplay ==
    (rd.set /\ rd.busy /\ Framed(rd.log))
    => rd.replay = [err |-> "nil", obs |-> ObsOf(rd.log)]

\* C9: a writeRecord call with a payload longer than 65535 bytes returns an
\* error, and the length field of a record written without error is the
\* number of payload bytes.
C9_LengthField ==
    \A i \in 1 .. Len(log) :
        /\ (log[i].ret # "pending" /\ SLen(log[i].value) > 65535) => log[i].ret # "nil"
        /\ log[i].ret = "nil" =>
              ByteAt(stream, log[i].off + 1) + 256 * ByteAt(stream, log[i].off + 2)
                  = SLen(log[i].value)

\* the number of bytes of an incomplete last record
TailBytes(l) == IF l # <<>> /\ ~Complete(l[Len(l)]) THEN l[Len(l)].bytes ELSE 0

\* C10: on a stream of complete records with payloads of at most 65535
\* bytes, followed by a part of one more record or by nothing, readRecord
\* returns every complete record with its marker and its payload (an empty
\* payload is not nil), then end-of-stream without error when nothing
\* follows and an error when a part of a record follows.
C10_ReadRecord ==
    (rd.set /\ Framed(rd.log))
    => LET n == Cardinality({i \in 1 .. Len(rd.log) : Complete(rd.log[i])}) IN
       /\ Len(rd.records) = n + 1
       /\ \A i \in 1 .. n :
             rd.records[i] = [marker |-> rd.log[i].marker,
                              value |-> [isNil |-> FALSE, bytes |-> rd.log[i].value],
                              err |-> "nil"]
       /\ TailBytes(rd.log) = 0 =>
             rd.records[n + 1] = [marker |-> 0, value |-> NilValue, err |-> "nil"]
       /\ TailBytes(rd.log) > 0 => rd.records[n + 1].err # "nil"

\* C10 witness: a complete record with an empty payload was read back, and
\* after it a record cut off inside its payload.
C10_Witness ==
    /\ rd.set
    /\ Framed(rd.log)
    /\ Len(rd.log) = 2
    /\ rd.log[1].value = <<>>
    /\ Complete(rd.log[1])
    /\ TailBytes(rd.log) > 3
    /\ Len(rd.records) = 2

\* C11: when getting the file, encoding or appending fails for an
\* observation, Run logs it and goes on: it leaves its loop only on the stop
\* signal, the observation of the failed step is in no file, and every other
\* observation Run received is in a file once.
C11_RunDropsAndContinues ==
    /\ pipe.run = "returned" => pipe.stop \in {"load", "returned", "fault"}
    /\ pipe.dropped \subseteq 0 .. budget.obs - 1
    /\ \A n \in 0 .. budget.obs - 1 :
          Count(StoredFrom(0), PipeObs(n)) = IF n \in pipe.dropped THEN 0 ELSE 1

\* C11: an observation was dropped and one submitted after it was appended
C11_Witness ==
    \E n \in pipe.dropped, m \in 0 .. budget.obs - 1 :
        /\ n < m
        /\ m \notin pipe.dropped
        /\ Count(StoredFrom(0), PipeObs(m)) = 1

\* C12: Add never discards an observation: the observations whose Add
\* returned are, in the order submitted, those Run received followed by
\* those queued; at most ChanCap are queued; a caller of Add can proceed
\* exactly when fewer than ChanCap are queued, whatever Run is doing.
C12_AddNeverDiscards ==
    /\ Len(obsChan) <= ChanCap
    /\ pipe.added = budget.obs + Len(obsChan)
    /\ \A i \in 1 .. Len(obsChan) : obsChan[i] = PipeObs(budget.obs + i - 1)
    /\ pipe.calling => ((ENABLED AddSend) <=> Len(obsChan) < ChanCap)

\* C12: Run has received observations and a caller of Add waits at the channel,
\* which is full
C12_Witness ==
    /\ pipe.calling
    /\ Len(obsChan) = ChanCap
    /\ pipe.added = ChanCap + budget.obs
    /\ budget.obs > 0

\* C13: Stop, called while Run is running, ends without a panic in either
\* goroutine, and when it has returned Run has returned and the active file,
\* if there is one, is closed.
C13_StopWithoutFault ==
    /\ pipe.stop # "fault"
    /\ pipe.stop = "returned" => pipe.run = "returned" /\ (cur.set => cur.closed)

\* a filter as the store's description reads it: not given, an empty set,
\* or a set that holds the key
PassesSet(f, key) == f.isNil \/ f.keys = {} \/ key \in f.keys

\* obs lies in the window ListObservations works with and passes the flag
\* and the three filters
Accepted(options, obs) ==
    /\ Window(options).start <= obs.Timestamp
    /\ obs.Timestamp <= Window(options).end
    /\ ~(options.FailuresOnly /\ obs.Ok)
    /\ PassesSet(options.FilterJobIDs, obs.JobID)
    /\ PassesSet(options.FilterSrcHosts, obs.SrcHost)
    /\ PassesSet(options.FilterDestHosts, obs.DestHost)

\* ListObservations went on to replay files and did so without a limit
ReplayedAll ==
    /\ qry.set
    /\ "options" \in DOMAIN qry
    /\ qry.err = "nil"
    /\ qry.options.Limit = 0
    /\ qry.options.End = empty
          \/ ~(qry.options.End > Window(qry.options).start
               \/ qry.options.End < Window(qry.options).startLimit)

\* C14: a query that replays its files returns exactly the stored
\* observations whose timestamp is in [start, end], that are failures when
\* failures-only is set, and whose job, source host and destination host
\* pass their filters, a filter given as an empty set passing every value
\* like a filter that is not given.
C14_FilterAcceptance ==
    ReplayedAll =>
        SameObservations(qry.result,
                         SelectSeq(StoredFrom(0),
                                   LAMBDA obs : Accepted(qry.options, obs)))

\* the instant before which a sweep at the clock's time deletes, with a
\* retention below one hour counting as one hour
SweepLimit == startOfHourUTC(clock - Max(retentionHours, 1) * Hour)

\* the entry is a file with the prefix, last modified before SweepLimit
Outdated(entry) == entry.kind = "file" /\ entry.prefix /\ entry.mtime < SweepLimit

\* one sweep has run to its end and no other was started
OneSweepDone ==
    \E p \in Sweepers :
        /\ sweepers[p].pc = "done"
        /\ \A q \in Sweepers \ {p} : sweepers[q].pc = "none"

\* C15: a sweep deletes nothing but files with the prefix that were last
\* modified before the start of the hour of now - max(retentionHours, 1)
\* hours, and when it has ended, every such file is deleted; a retention of
\* zero or less counts as one hour.
C15_SweepDeletesOutdated ==
    /\ \A n \in Names : entries[n].gone => Outdated(entries[n])
    /\ OneSweepDone => \A n \in Names : Outdated(entries[n]) => entries[n].gone

\* C15: with a retention of zero or less, one sweep has ended, a file is
\* deleted and a file modified at the limit itself is still there
C15_Witness ==
    /\ OneSweepDone
    /\ retentionHours <= 0
    /\ \E n \in Names : entries[n].gone
    /\ \E n \in Names :
          /\ entries[n].kind = "file" /\ entries[n].prefix
          /\ entries[n].mtime = SweepLimit /\ ~entries[n].gone

\* the hour buckets from the one start lies in to the one end lies in
Buckets(start, end) == {h \in Hours : HourOf(start) <= h /\ h <= HourOf(end)}

\* C16: GetRecordFiles(start, end) fails and returns no list when the name
\* of one of the hour buckets from start's to end's is a directory;
\* otherwise it returns, in ascending order of time and each once, exactly
\* the files that exist for these buckets, skipping the missing ones.
C16_RecordFiles ==
    (qry.set /\ "files" \in DOMAIN qry) =>
        IF \E h \in Buckets(qry.start, qry.end) : fs[h].kind = "dir"
        THEN qry.err # "nil" /\ qry.files = <<>>
        ELSE /\ qry.err = "nil"
             /\ \A i \in 1 .. Len(qry.files) - 1 : qry.files[i] < qry.files[i + 1]
             /\ {qry.files[i] : i \in 1 .. Len(qry.files)}
                   = {h \in Buckets(qry.start, qry.end) : fs[h].kind = "file"}

\* C16: the list has two files and skips a bucket between them that has none
C16_Witness ==
    /\ qry.set
    /\ "files" \in DOMAIN qry
    /\ Len(qry.files) = 2
    /\ \E h \in Hours :
          /\ qry.files[1] < h /\ h < qry.files[2]
          /\ fs[h].kind = "none"

\* the replay of the file of hour h fails
Damaged(h) == fs[h].kind = "file" /\ IterateRecordFile(fs[h]).err # "nil"

\* the hour buckets of the window of the query held in qry
QueryBuckets == Buckets(Window(qry.options).start, Window(qry.options).end)

\* the query held in qry went on to replay files and one of those it
\* replayed is damaged: any of them without a limit, the first with one
MetDamage ==
    /\ qry.set
    /\ "options" \in DOMAIN qry
    /\ qry.options.End = empty
          \/ ~(qry.options.End > Window(qry.options).start
               \/ qry.options.End < Window(qry.options).startLimit)
    /\ \A h \in QueryBuckets : fs[h].kind # "dir"
    /\ \E h \in QueryBuckets :
          /\ Damaged(h)
          /\ qry.options.Limit # 0 =>
                \A g \in QueryBuckets : fs[g].kind = "file" => h <= g

\* C17: a query whose replay meets a record with an unknown marker, a
\* record that is cut off or an observation with an undefined key returns an
\* error and no observation, none of an earlier file either; and no call of
\* the read path changes the directory.
C17_ReplayFails ==
    /\ [](MetDamage => qry.err # "nil" /\ qry.result = <<>>)
    /\ [][qry' # qry => fs' = fs]_vars

\* C17: a query failed on a damaged file after it had replayed the intact
\* file of an earlier hour that holds observations of its window
C17_Witness ==
    /\ MetDamage
    /\ qry.err # "nil"
    /\ qry.result = <<>>
    /\ \E g \in QueryBuckets, h \in QueryBuckets :
          /\ g < h
          /\ Damaged(h)
          /\ fs[g].kind = "file" /\ ~Damaged(g)
          /\ \E i \in 1 .. Len(stored[g]) : Accepted(qry.options, stored[g][i])

\* the write handles that are open: the one of the current writeFile and
\* those getFile opened and dropped
OpenHandles == (IF cur.set /\ ~cur.closed THEN 1 ELSE 0) + pipe.leaked

\* C18: the writer never has more than one write handle open, and a
\* rotation that fails, at os.OpenFile or at writing the OPEN record, leaves
\* no handle open besides the current one.
C18_OneOpenHandle ==
    /\ OpenHandles <= 1
    /\ pipe.leaked = 0

\* every goroutine that was started has ended
SweepsDone == \A p \in Sweepers : sweepers[p].pc = "done"

\* C19: of two sweeps running concurrently, each ends having visited every
\* entry it listed, also after an os.Remove that failed because the other
\* sweep had removed the file; when both have ended, the files deleted are
\* those one sweep alone deletes; a rotation can start a sweep whatever the
\* other sweep is doing; and every sweep started ends.
C19_ConcurrentSweeps ==
    /\ [](\A p \in Sweepers :
            sweepers[p].pc = "done" =>
                /\ sweepers[p].seen
                      = {sweepers[p].files[i] : i \in 1 .. Len(sweepers[p].files)}
                /\ \A n \in sweepers[p].failed : entries[n].gone)
    /\ [](SweepsDone => \A n \in Names : entries[n].gone <=> Outdated(entries[n]))
    /\ [](\A p \in Sweepers : sweepers[p].pc = "none" => ENABLED Spawn(p))
    /\ \A p \in Sweepers : (sweepers[p].pc = "start") ~> (sweepers[p].pc = "done")

\* C19: both sweeps have ended, and one of them went on after its os.Remove
\* of a file the other had removed failed
C19_Witness ==
    /\ SweepsDone
    /\ \E p \in Sweepers, n \in Names :
          /\ n \in sweepers[p].failed
          /\ \E m \in sweepers[p].seen : m > n

\* Run has taken the stop signal
StopObserved == pipe.stop \in {"load", "returned", "fault"}

\* C20: once Run has taken the stop signal it receives nothing more: no
\* observation is appended to a file and none leaves the channel, so the
\* observations queued at that moment stay in the channel and in no file.
C20_QueuedLostAtStop ==
    /\ [][StopObserved =>
            /\ stored' = stored
            /\ fs' = fs
            /\ SubSeq(obsChan', 1, Len(obsChan)) = obsChan]_vars
    /\ [](StopObserved =>
            \A i \in 1 .. Len(obsChan) : Count(StoredFrom(0), obsChan[i]) = 0)

\* C20: Stop has returned with the file closed, and the observation that
\* was at the head of the channel when Stop was called is still there and
\* in no file
C20_Witness ==
    /\ pipe.stop = "returned"
    /\ pipe.run = "returned"
    /\ cur.set /\ cur.closed
    /\ obsChan # <<>>
    /\ pipe.atStop = Head(obsChan).Timestamp
    /\ Count(StoredFrom(0), Head(obsChan)) = 0

\* C21: whatever the interleaving of Stop with Run, Run never ends with a
\* panic: back at its select after a case, it never evaluates w.ticker.C
\* with the ticker field cleared by Stop.
C21_RunNeverFaults == pipe.run # "fault"


\* C22: no record is written and no sync is issued through a closed handle:
\* a Run step never writes or syncs through a closed writeFile, Stop has
\* closed the file only when Run has taken the stop signal and returned, and
\* a current writeFile that a failed rotation has closed is past its end, so
\* that the next getFile of Run rotates again instead of handing it out
\* (time.Now() of a later step is never before that of an earlier one).
C22_NoUseAfterClose ==
    /\ ev.op = "run" => ~ev.onClosed
    /\ pipe.stop \in {"returned", "fault"} => pipe.run = "returned"
    /\ (cur.set /\ cur.closed /\ pipe.run # "returned") => RotationDue

\* C22 witness: a rotation has failed after closing the old handle, and the
\* next step of Run, finding the closed writeFile, has rotated again and
\* works on the new file; afterwards Stop has closed that file.
C22_Witness ==
    /\ ev.op = "run" /\ ev.wasClosed /\ ev.rot /\ ev.err = "nil"
    /\ pipe.stop = "returned" /\ cur.closed /\ cur.hour = ev.to


\* C23 as stated: a retention sweep never deletes the file of the writer's
\* current writeFile while its handle is open.
C23_SweepSparesCurrentFile == ~(cur.detached /\ ~cur.closed)

\* C23, amended: a retention sweep deletes the file of the current writeFile
\* only when that writeFile is past its end and on its way out: the rotation
\* that started the sweep is about to close it, or a rotation has closed it
\* already; a file that getFile still hands out is never deleted.
C23_SweepSparesFileInUse ==
    cur.detached => RotationDue /\ (cur.closed \/ Entered)

\* C23 witness: a sweep has deleted the file of the current writeFile, still
\* open, in the middle of the rotation that started the sweep.
C23_Witness == cur.detached /\ ~cur.closed /\ Entered /\ sweeps = 0


\* C24: time.Now() never going back, every rotation of the running writer
\* that closes a file and opens one opens the file of an hour strictly
\* after the hour of the file it closes, so that the writer never re-opens
\* the file it has just closed and the file names of one run increase.
C24_RotationMovesOn ==
    (ev.op = "run" /\ ev.rot /\ ev.had /\ ev.err = "nil") =>
        /\ ev.from < ev.to
        /\ ev.to = HourOf(ev.now)
        /\ pipe.run # "returned" => cur.hour = ev.to /\ ~cur.closed

\* C24 witness: the writer has rotated twice, the second time from the file
\* of hour 1 to the file of hour 2.
C24_Witness ==
    /\ ev.op = "run" /\ ev.rot /\ ev.had /\ ev.err = "nil"
    /\ ev.from = 1 /\ ev.to = 2 /\ cur.hour = 2 /\ fs[0].kind = "file"

=============================================================================
